---- MODULE Spec2Model ----
(***************************************************************************)
(* Weekly OE report (weeklyreports.py): spreadsheet rows are normalized,   *)
(* filtered by three week windows, deduplicated per client, aggregated    *)
(* into a three-row summary, and next week's lives-active is replaced by  *)
(* a projection.  python-weelky-clients.py holds a second deduplicator.   *)
(*                                                                         *)
(* Text is modelled as sequences of one-character strings, dates as        *)
(* [y, m, d] records (datetime.date), timestamps as a date plus a time of  *)
(* day (pandas Timestamp).  Counts are whole numbers (Int), for which      *)
(* Python's int() and round() leave the value unchanged.                   *)
(***************************************************************************)
EXTENDS Integers, Sequences, FiniteSets, TLC

\* ------------------------------------------------------------ bounds

\* Largest number of spreadsheet rows in one workbook sheet.
MaxRows == 3

\* ------------------------------------------------------------ text

UPPER ==
  <<"A", "B", "C", "D", "E", "F", "G", "H", "I", "J", "K", "L", "M", "N", "O",
    "P", "Q", "R", "S", "T", "U", "V", "W", "X", "Y", "Z">>
LOWER ==
  <<"a", "b", "c", "d", "e", "f", "g", "h", "i", "j", "k", "l", "m", "n", "o",
    "p", "q", "r", "s", "t", "u", "v", "w", "x", "y", "z">>
DIGITS == <<"0", "1", "2", "3", "4", "5", "6", "7", "8", "9">>

InSeq(seq, c) == \E i \in 1..Len(seq) : seq[i] = c
IndexOf(seq, c) == CHOOSE i \in 1..Len(seq) : seq[i] = c

Range(seq) == {seq[i] : i \in 1..Len(seq)}

Chars == Range(UPPER) \cup Range(LOWER) \cup Range(DIGITS) \cup {" ", "<", ">"}

\* ord(c) for every character of the model, the order Python compares str by
CodeTable ==
  [c \in Chars |->
    IF InSeq(UPPER, c) THEN 64 + IndexOf(UPPER, c)
    ELSE IF InSeq(LOWER, c) THEN 96 + IndexOf(LOWER, c)
    ELSE IF InSeq(DIGITS, c) THEN 47 + IndexOf(DIGITS, c)
    ELSE IF c = " " THEN 32
    ELSE IF c = "<" THEN 60
    ELSE 62]

CharCode(c) == CodeTable[c]

IsUpper(c) == CharCode(c) >= CharCode("A") /\ CharCode(c) <= CharCode("Z")
IsLowerCase(c) == CharCode(c) >= CharCode("a") /\ CharCode(c) <= CharCode("z")
IsLetter(c) == IsUpper(c) \/ IsLowerCase(c)

\* str.lower / str.upper on one character
LowerTable == [c \in Chars |-> IF InSeq(UPPER, c) THEN LOWER[IndexOf(UPPER, c)] ELSE c]
UpperTable == [c \in Chars |-> IF InSeq(LOWER, c) THEN UPPER[IndexOf(LOWER, c)] ELSE c]
LowerChar(c) == LowerTable[c]
UpperChar(c) == UpperTable[c]

Lower(s) == [i \in 1..Len(s) |-> LowerChar(s[i])]

\* str.strip(): drop leading and trailing blanks.
Strip(s) ==
  LET idx == {i \in 1..Len(s) : s[i] # " "}
      lo == CHOOSE i \in idx : \A j \in idx : i <= j
      hi == CHOOSE i \in idx : \A j \in idx : i >= j
  IN IF idx = {} THEN <<>> ELSE SubSeq(s, lo, hi)

\* sub in s
Contains(s, sub) ==
  \E i \in 1..(Len(s) - Len(sub) + 1) : SubSeq(s, i, i + Len(sub) - 1) = sub

\* str.title(): a letter after a non-letter is upper-cased, any other letter
\* is lower-cased.
Title(s) ==
  [i \in 1..Len(s) |->
    IF ~IsLetter(s[i]) THEN s[i]
    ELSE IF i = 1 \/ ~IsLetter(s[i - 1]) THEN UpperChar(s[i])
    ELSE LowerChar(s[i])]

\* a < b for Python str
RECURSIVE StrLess(_, _)
StrLess(a, b) ==
  IF b = <<>> THEN FALSE
  ELSE IF a = <<>> THEN TRUE
  ELSE IF CharCode(Head(a)) # CharCode(Head(b))
       THEN CharCode(Head(a)) < CharCode(Head(b))
  ELSE StrLess(Tail(a), Tail(b))

\* ------------------------------------------------------------ dates

Date(y, m, d) == [y |-> y, m |-> m, d |-> d]

IsLeap(y) == (y % 4 = 0 /\ y % 100 # 0) \/ y % 400 = 0

DaysInMonth(y, m) ==
  IF m = 2 THEN (IF IsLeap(y) THEN 29 ELSE 28)
  ELSE IF m \in {4, 6, 9, 11} THEN 30 ELSE 31

DaysInYear(y) == IF IsLeap(y) THEN 366 ELSE 365

\* days of a common year before the first of each month
DAYS_BEFORE_MONTH == <<0, 31, 59, 90, 120, 151, 181, 212, 243, 273, 304, 334>>

DaysBeforeMonth(y, m) ==
  DAYS_BEFORE_MONTH[m] + (IF m > 2 /\ IsLeap(y) THEN 1 ELSE 0)

\* Day numbers count from 2024-12-31 = 0, a Tuesday, so 2025-01-01 = 1.
RECURSIVE DaysBeforeYear(_)
DaysBeforeYear(y) ==
  IF y = 2025 THEN 0
  ELSE IF y > 2025 THEN DaysBeforeYear(y - 1) + DaysInYear(y - 1)
  ELSE DaysBeforeYear(y + 1) - DaysInYear(y)

ToOrdinal(dt) == DaysBeforeYear(dt.y) + DaysBeforeMonth(dt.y, dt.m) + dt.d

RECURSIVE YearOfOrdinal(_, _)
YearOfOrdinal(n, y) ==
  IF n <= DaysBeforeYear(y) THEN YearOfOrdinal(n, y - 1)
  ELSE IF n > DaysBeforeYear(y + 1) THEN YearOfOrdinal(n, y + 1)
  ELSE y

RECURSIVE MonthOfDayInYear(_, _, _)
MonthOfDayInYear(y, k, m) ==
  IF k <= DaysBeforeMonth(y, m) + DaysInMonth(y, m) THEN m
  ELSE MonthOfDayInYear(y, k, m + 1)

FromOrdinal(n) ==
  LET y == YearOfOrdinal(n, 2025)
      k == n - DaysBeforeYear(y)
      m == MonthOfDayInYear(y, k, 1)
  IN Date(y, m, k - DaysBeforeMonth(y, m))

\* date + timedelta(days=k)
AddDays(dt, k) == FromOrdinal(ToOrdinal(dt) + k)

\* date.weekday(): Monday = 0 .. Sunday = 6
Weekday(dt) == (ToOrdinal(dt) + 1) % 7

\* date comparison: (year, month, day) lexicographically
DateLess(a, b) ==
  \/ a.y < b.y
  \/ a.y = b.y /\ a.m < b.m
  \/ a.y = b.y /\ a.m = b.m /\ a.d < b.d

DateLeq(a, b) == a = b \/ DateLess(a, b)

\* ------------------------------------------------------------ cells

\* A spreadsheet cell as pd.read_excel delivers it: empty (NaN), text, a
\* number, or a timestamp (a date and a time of day in hours).
NoDate == Date(0, 0, 0)
Blank == [kind |-> "blank", s |-> <<>>, n |-> 0, date |-> NoDate, tod |-> 0]
Text(str) == [kind |-> "text", s |-> str, n |-> 0, date |-> NoDate, tod |-> 0]
Num(v) == [kind |-> "num", s |-> <<>>, n |-> v, date |-> NoDate, tod |-> 0]
Ts(dt, hour) == [kind |-> "ts", s |-> <<>>, n |-> 0, date |-> dt, tod |-> hour]

\* pd.NaT
NaT == Blank
IsNaT(c) == c.kind # "ts"

\* Timestamp comparison; any comparison with NaT is False.
TsLeq(a, b) ==
  /\ ~IsNaT(a)
  /\ ~IsNaT(b)
  /\ \/ DateLess(a.date, b.date)
     \/ a.date = b.date /\ a.tod <= b.tod

\* ------------------------------------------------------------ config

NO_DATE_CONFIGURED ==
  <<"N", "o", " ", "d", "a", "t", "e", " ", "c", "o", "n", "f", "i", "g", "u",
    "r", "e", "d">>

\* The candidate date columns a sheet of the model carries, in the priority
\* order of START_FALLBACKS / END_FALLBACKS (CDR before SYS).
START_FALLBACKS == <<"start_cdr", "start_sys">>
END_FALLBACKS == <<"end_cdr", "end_sys">>

Active == <<"A", "c", "t", "i", "v", "e">>
COBRA == <<"C", "O", "B", "R", "A">>
Retiree == <<"R", "e", "t", "i", "r", "e", "e">>
Unknown == <<"U", "n", "k", "n", "o", "w", "n">>

POP_PRIORITY == <<Active, COBRA, Retiree>>

\* ------------------------------------------------------------ normalizer

normalize_pop_type(val) ==
  IF val.kind # "text" THEN Unknown
  ELSE LET v == Lower(Strip(val.s))
       IN IF Contains(v, Lower(Active)) \/ v = <<"a", "c", "t">> THEN Active
          ELSE IF Contains(v, Lower(COBRA)) \/ v = <<"c", "o", "b">> THEN COBRA
          ELSE IF Contains(v, <<"r", "e", "t">>) THEN Retiree
          ELSE Title(Strip(val.s))

\* df.replace("No date configured", pd.NA) on one cell
ReplaceSentinel(c) ==
  IF c.kind = "text" /\ c.s = NO_DATE_CONFIGURED THEN Blank ELSE c

\* pd.to_datetime(errors="coerce") on one cell
ToDatetime(c) == IF c.kind = "ts" THEN c ELSE NaT

\* pd.to_numeric(errors="coerce").fillna(0) on one cell
ToNumeric(c) == IF c.kind = "num" THEN c.n ELSE 0

\* astype(str).str.strip() on one ControlId cell: an empty cell (NaN) prints
\* as "nan", a cell that held the sentinel (now pd.NA) as "<NA>".
ControlIdText(c) ==
  IF c.kind # "text" THEN <<"n", "a", "n">>
  ELSE IF c.s = NO_DATE_CONFIGURED THEN <<"<", "N", "A", ">">>
  ELSE Strip(c.s)

\* bfill across the candidate columns, then the first column: the first
\* candidate, in priority order, that holds a date.
RECURSIVE coalesce_dates(_, _)
coalesce_dates(row, candidates) ==
  IF candidates = <<>> THEN NaT
  ELSE LET c == ToDatetime(ReplaceSentinel(row[Head(candidates)]))
       IN IF IsNaT(c) THEN coalesce_dates(row, Tail(candidates)) ELSE c

\* One row after the column clean-up, the date coalescing and the mirroring
\* of a missing bound (lines 113-130).
ResolveRow(row) ==
  LET s0 == coalesce_dates(row, START_FALLBACKS)
      e0 == coalesce_dates(row, END_FALLBACKS)
      s1 == IF IsNaT(s0) THEN e0 ELSE s0
      e1 == IF IsNaT(e0) THEN s1 ELSE e0
  IN [ControlId |-> ControlIdText(row.cid),
      PopType |-> normalize_pop_type(ReplaceSentinel(row.ptype)),
      PopSize |-> ToNumeric(ReplaceSentinel(row.pop)),
      OeTotal |-> ToNumeric(ReplaceSentinel(row.oe)),
      Confirmed |-> ToNumeric(ReplaceSentinel(row.conf)),
      Start |-> s1,
      End |-> e1]

\* ValidWindow with the comparison turned round.
ValidWindow_Reversed(r) == TsLeq(r.End, r.Start)

\* df[df["__End"] >= df["__Start"]]
ValidWindow(r) == TsLeq(r.Start, r.End)

\* Adds the date-only columns and the fresh 0..n-1 index (lines 136-139).
WithDateColumns(rows) ==
  [i \in 1..Len(rows) |->
    [idx |-> i - 1,
     ControlId |-> rows[i].ControlId,
     PopType |-> rows[i].PopType,
     PopSize |-> rows[i].PopSize,
     OeTotal |-> rows[i].OeTotal,
     Confirmed |-> rows[i].Confirmed,
     Start |-> rows[i].Start,
     End |-> rows[i].End,
     Start_d |-> rows[i].Start.date,
     End_d |-> rows[i].End.date]]

load_and_clean_excel(sheet) ==
  WithDateColumns(SelectSeq([i \in 1..Len(sheet) |-> ResolveRow(sheet[i])], ValidWindow))

\* ------------------------------------------------------------ frames

\* df[mask]: the rows at the positions in keep, in their order, each
\* with its index label.
SelectIdx(seq, keep) ==
  LET f[i \in 0..Len(seq)] ==
        IF i = 0 THEN <<>>
        ELSE IF i \in keep THEN Append(f[i - 1], seq[i]) ELSE f[i - 1]
  IN f[Len(seq)]

RECURSIVE SumSeq(_)
SumSeq(seq) == IF seq = <<>> THEN 0 ELSE Head(seq) + SumSeq(Tail(seq))

Max(a, b) == IF a >= b THEN a ELSE b

\* ------------------------------------------------------------ filters

rows_going_live(df, start_d, end_d) ==
  SelectIdx(df, {i \in DOMAIN df :
    DateLeq(start_d, df[i].Start_d) /\ DateLeq(df[i].Start_d, end_d)})

\* rows_active with a half-open window: a row starting on end_d is left out.
rows_active_HalfOpen(df, start_d, end_d) ==
  SelectIdx(df, {i \in DOMAIN df :
    DateLess(df[i].Start_d, end_d) /\ DateLeq(start_d, df[i].End_d)})

rows_active(df, start_d, end_d) ==
  SelectIdx(df, {i \in DOMAIN df :
    DateLeq(df[i].Start_d, end_d) /\ DateLeq(start_d, df[i].End_d)})

rows_completed(df, week_start_d) ==
  SelectIdx(df, {i \in DOMAIN df : DateLess(df[i].End_d, week_start_d)})

\* ------------------------------------------------------------ dedupe

\* PopOrder with order.get(p, 0): an unlisted type ranks with Active.
PopOrder_DefaultZero(p) ==
  IF InSeq(POP_PRIORITY, p) THEN IndexOf(POP_PRIORITY, p) - 1 ELSE 0

\* order.get(p, len(order))
PopOrder(p) ==
  IF InSeq(POP_PRIORITY, p) THEN IndexOf(POP_PRIORITY, p) - 1
  ELSE Len(POP_PRIORITY)

\* python-weelky-clients.py: rank 1, 2, 3 for the listed types, 4 otherwise
PopRank(p) ==
  IF InSeq(POP_PRIORITY, p) THEN IndexOf(POP_PRIORITY, p)
  ELSE Len(POP_PRIORITY) + 1

TsLess(a, b) == TsLeq(a, b) /\ a # b

\* The value a row holds in a column that a sort names.
SortKey(col, r) ==
  CASE col = "ControlId" -> r.ControlId
    [] col = "Population Type" -> r.PopType
    [] col = "__pop_order" -> PopOrder(r.PopType)
    [] col = "pop_rank" -> PopRank(r.PopType)
    [] col = "__Start" -> r.Start
    [] col = "__End" -> r.End
    [] col = "index" -> r.idx

\* The order of two values of one column: strings by code point, numbers
\* by size, timestamps by time.
KeyLess(col, x, y) ==
  CASE col \in {"ControlId", "Population Type"} -> StrLess(x, y)
    [] col \in {"__pop_order", "pop_rank", "index"} -> x < y
    [] col \in {"__Start", "__End"} -> TsLess(x, y)

\* Row a sorts before row b under sort_values(by): the first column of by
\* on which they differ decides.
RowLess(by, a, b) ==
  \E k \in 1..Len(by) :
    /\ \A j \in 1..(k - 1) : SortKey(by[j], a) = SortKey(by[j], b)
    /\ KeyLess(by[k], SortKey(by[k], a), SortKey(by[k], b))

\* sort_values(by) / sort_index(): a stable sort, equal keys keep their
\* relative order (pandas sorts on several columns with a stable
\* lexicographic sort; index labels are distinct).
StableSort(seq, by) ==
  LET Insert(sorted, x) ==
        LET k == CHOOSE k \in 0..Len(sorted) :
                   /\ \A j \in 1..k : ~RowLess(by, x, sorted[j])
                   /\ k = Len(sorted) \/ RowLess(by, x, sorted[k + 1])
        IN SubSeq(sorted, 1, k) \o <<x>> \o SubSeq(sorted, k + 1, Len(sorted))
      f[i \in 0..Len(seq)] ==
        IF i = 0 THEN <<>> ELSE Insert(f[i - 1], seq[i])
  IN f[Len(seq)]

\* DropDuplicates with the mask inverted: the duplicates are what is kept.
DropDuplicates_Inverted(df) ==
  SelectIdx(df, {i \in DOMAIN df : \E j \in 1..(i - 1) : df[j].ControlId = df[i].ControlId})

\* drop_duplicates(subset=[ControlId], keep="first")
DropDuplicates(df) ==
  SelectIdx(df, {i \in DOMAIN df : \A j \in 1..(i - 1) : df[j].ControlId # df[i].ControlId})

dedupe_clients_for_count(df) ==
  DropDuplicates(StableSort(df, <<"ControlId", "__pop_order">>))

count_unique_clients(df) ==
  IF df = <<>> THEN 0
  ELSE LET out == dedupe_clients_for_count(df)
       IN Cardinality({out[i].ControlId : i \in 1..Len(out)})

\* python-weelky-clients.py: the same selection, returned in sheet order
dedupe_clients(df) ==
  IF df = <<>> THEN df
  ELSE StableSort(DropDuplicates(StableSort(df, <<"ControlId", "pop_rank">>)), <<"index">>)

\* ------------------------------------------------------------ metrics

\* LivesOfRow without the clamp at 0.
LivesOfRow_NoClamp(r) ==
  IF r.OeTotal > 0 THEN r.OeTotal - r.Confirmed ELSE r.PopSize

\* np.where(oe > 0, oe - conf, pop), clamped at 0, for one row
LivesOfRow(r) ==
  Max(IF r.OeTotal > 0 THEN r.OeTotal - r.Confirmed ELSE r.PopSize, 0)

calc_lives_active(df) ==
  IF df = <<>> THEN 0
  ELSE SumSeq([i \in 1..Len(df) |-> LivesOfRow(df[i])])

\* StartCutoff one day early.
StartCutoff_Sept7(week_end_d) == Date(week_end_d.y, 9, 7)

\* date(week_end_d.year, 9, 8)
StartCutoff(week_end_d) == Date(week_end_d.y, 9, 8)

calc_lives_confirmed_for_active(df_active, week_end_d) ==
  IF df_active = <<>> THEN 0
  ELSE LET start_cutoff == StartCutoff(week_end_d)
           masked == SelectIdx(df_active, {i \in DOMAIN df_active :
                       /\ DateLeq(start_cutoff, df_active[i].Start_d)
                       /\ DateLeq(df_active[i].Start_d, week_end_d)})
       IN SumSeq([i \in 1..Len(masked) |-> masked[i].Confirmed])

\* ------------------------------------------------------------ projection

\* continuing_next_week counting a row that starts on next_start_d.
continuing_next_week_Inclusive(df, next_start_d, next_end_d) ==
  LET nxt_active == rows_active(df, next_start_d, next_end_d)
  IN SelectIdx(nxt_active, {i \in DOMAIN nxt_active :
       DateLeq(nxt_active[i].Start_d, next_start_d)})

continuing_next_week(df, next_start_d, next_end_d) ==
  LET nxt_active == rows_active(df, next_start_d, next_end_d)
  IN SelectIdx(nxt_active, {i \in DOMAIN nxt_active :
       DateLess(nxt_active[i].Start_d, next_start_d)})

new_go_lives_next_week(df, next_start_d, next_end_d) ==
  rows_going_live(df, next_start_d, next_end_d)

\* __pop_est of one row
PopEst(r) == IF r.PopSize > 0 THEN r.PopSize ELSE r.OeTotal

\* by_type.get(t, 0) within one client's group g
TypeSum(g, t) ==
  LET rows == SelectIdx(g, {i \in DOMAIN g : g[i].PopType = t})
  IN SumSeq([i \in 1..Len(rows) |-> PopEst(rows[i])])

\* sum of by_type over the types other than Active, Retiree, COBRA
OthersSum(g) ==
  LET rows == SelectIdx(g, {i \in DOMAIN g : g[i].PopType \notin {Active, Retiree, COBRA}})
  IN SumSeq([i \in 1..Len(rows) |-> PopEst(rows[i])])

\* GuardRetiree without the guard.
GuardRetiree_Missing(active, retiree) == retiree

\* the retiree bucket after the guard
GuardRetiree(active, retiree) ==
  IF active > 0 /\ retiree > active THEN active ELSE retiree

\* one client's term of the total
ClientTotal(g) ==
  TypeSum(g, Active) + GuardRetiree(TypeSum(g, Active), TypeSum(g, Retiree))
    + TypeSum(g, COBRA) + OthersSum(g)

RECURSIVE SumOverClients(_, _)
SumOverClients(new_rows, cids) ==
  IF cids = {} THEN 0
  ELSE LET cid == CHOOSE c \in cids : TRUE
           g == SelectIdx(new_rows, {i \in DOMAIN new_rows : new_rows[i].ControlId = cid})
       IN ClientTotal(g) + SumOverClients(new_rows, cids \ {cid})

sum_new_client_popsize_with_guard(new_rows) ==
  IF new_rows = <<>> THEN 0
  ELSE SumOverClients(new_rows,
         {new_rows[i].ControlId : i \in 1..Len(new_rows)})

\* ------------------------------------------------------------ weeks

monday_of(d) == AddDays(d, 0 - Weekday(d))

\* The dict of week ranges, in insertion order.
three_week_ranges(this_week_start) ==
  LET last == AddDays(this_week_start, 0 - 7)
      nxt == AddDays(this_week_start, 7)
  IN << [label |-> "Last Week", start |-> last, end |-> AddDays(last, 6)],
        [label |-> "This Week", start |-> this_week_start,
         end |-> AddDays(this_week_start, 6)],
        [label |-> "Next Week", start |-> nxt, end |-> AddDays(nxt, 6)] >>

\* ------------------------------------------------------------ summary

\* strftime('%m/%d') of both ends: month and day, the year is not printed
WeekLabel(start_d, end_d) == <<start_d.m, start_d.d, end_d.m, end_d.d>>

\* One pass of the loop of build_summary: the summary row of one window.
SummaryRow(df, start_d, end_d) ==
  LET going == rows_going_live(df, start_d, end_d)
      active == rows_active(df, start_d, end_d)
      completed == rows_completed(df, start_d)
  IN [Week |-> WeekLabel(start_d, end_d),
      ClientsGoingLive |-> count_unique_clients(going),
      ClientsActive |-> count_unique_clients(active),
      ClientsCompleted |-> count_unique_clients(completed),
      LivesActive |-> calc_lives_active(active),
      LivesConfirmed |-> calc_lives_confirmed_for_active(active, end_d)]

\* The index labels of a frame's rows, in the frame's order.
Labels(frame) == [i \in 1..Len(frame) |-> frame[i].idx]

\* The detail tables of one window; each is kept as the index labels of its
\* rows in sorted order.
DetailTabs(df, label, start_d, end_d) ==
  [label |-> label,
   going_live_rows |->
     Labels(StableSort(rows_going_live(df, start_d, end_d), <<"ControlId", "Population Type", "__Start">>)),
   active_rows |->
     Labels(StableSort(rows_active(df, start_d, end_d), <<"ControlId", "Population Type", "__Start">>)),
   completed_rows |->
     Labels(StableSort(rows_completed(df, start_d), <<"ControlId", "Population Type", "__End">>))]

\* The next-week projection of build_summary (lines 256-259).
Projected(df, nw_start_d, nw_end_d) ==
  calc_lives_active(continuing_next_week(df, nw_start_d, nw_end_d))
    + sum_new_client_popsize_with_guard(new_go_lives_next_week(df, nw_start_d, nw_end_d))

\* ------------------------------------------------------------ inputs

D(m, d) == Date(2025, m, d)

Row(cid, ptype, pop, oe, conf, s_cdr, s_sys, e_cdr, e_sys) ==
  [cid |-> cid, ptype |-> ptype, pop |-> pop, oe |-> oe, conf |-> conf,
   start_cdr |-> s_cdr, start_sys |-> s_sys, end_cdr |-> e_cdr, end_sys |-> e_sys]

CidC1 == Text(<<"C", "1">>)
CidC2 == Text(<<"C", "2">>)

\* Rows of one go-live week (2025-10-27 .. 2025-11-02): several population
\* types per client, equal-rank pairs, unlisted and missing types.
PoolClients ==
  { Row(CidC1, Text(<<"R", "e", "t", "i", "r", "e", "e", "s">>), Num(20), Num(0), Num(0),
        Ts(D(10, 27), 0), Blank, Ts(D(11, 2), 0), Blank),
    Row(CidC1, Text(<<"A", "c", "t", "i", "v", "e">>), Num(100), Num(0), Num(0),
        Ts(D(10, 27), 0), Blank, Ts(D(11, 2), 0), Blank),
    Row(Text(<<" ", "C", "1", " ">>), Text(<<" ", "A", "C", "T", " ">>), Num(7), Blank, Blank,
        Ts(D(10, 28), 0), Blank, Ts(D(11, 2), 0), Blank),
    Row(CidC2, Text(<<"c", "o", "b">>), Num(3), Num(0), Num(0),
        Ts(D(10, 27), 0), Blank, Ts(D(11, 2), 0), Blank),
    Row(CidC2, Text(<<"u", "n", "i", "o", "n">>), Num(9), Num(5), Num(9),
        Ts(D(10, 27), 0), Blank, Ts(D(11, 2), 0), Blank),
    Row(CidC2, Blank, Num(4), Num(0), Num(0),
        Ts(D(10, 29), 0), Blank, Ts(D(11, 2), 0), Blank) }

\* Rows around the weeks of 2025-09-08 and 2025-09-10: clients continuing
\* into the next week and clients going live in it, with the counts the
\* lives formulas branch on.
PoolLives ==
  { Row(CidC1, Text(Active), Num(30), Num(0), Num(0),
        Ts(D(9, 17), 0), Blank, Ts(D(9, 30), 0), Blank),
    Row(CidC1, Text(Retiree), Num(40), Num(0), Num(0),
        Ts(D(9, 17), 0), Blank, Ts(D(9, 30), 0), Blank),
    Row(CidC1, Text(Retiree), Num(0), Num(25), Num(3),
        Ts(D(9, 17), 0), Blank, Ts(D(9, 30), 0), Blank),
    Row(CidC2, Text(Retiree), Num(40), Text(<<"n", "a">>), Num(1),
        Ts(D(9, 22), 0), Blank, Ts(D(9, 30), 0), Blank),
    Row(CidC1, Text(Active), Num(999), Num(60), Num(10),
        Ts(D(9, 8), 0), Blank, Ts(D(9, 30), 0), Blank),
    Row(CidC2, Text(<<"u", "n", "i", "o", "n">>), Num(0 - 4), Num(5), Num(9),
        Ts(D(9, 8), 0), Blank, Ts(D(9, 12), 0), Blank) }

\* Rows whose date cells exercise the coalescing, the mirroring, the
\* invalid-window filter, the window boundaries and the September 8 cutoff.
PoolDates ==
  { Row(CidC1, Text(Active), Num(10), Num(0), Num(4),
        Ts(D(9, 7), 12), Ts(D(9, 20), 0), Ts(D(9, 10), 0), Blank),
    Row(CidC1, Text(Active), Num(10), Num(0), Num(5),
        Text(NO_DATE_CONFIGURED), Ts(D(9, 8), 0), Blank, Blank),
    Row(CidC1, Text(Active), Num(10), Num(0), Num(1),
        Ts(D(9, 12), 0), Blank, Ts(D(9, 9), 0), Blank),
    Row(CidC2, Text(Active), Num(10), Num(0), Num(1),
        Ts(D(9, 9), 12), Blank, Ts(D(9, 9), 0), Blank),
    Row(CidC2, Text(Active), Num(10), Num(0), Num(2),
        Blank, Text(<<"t", "b", "d">>), Blank, Ts(D(9, 14), 0)),
    Row(CidC2, Text(Active), Num(10), Num(8), Num(3),
        Ts(D(9, 1), 0), Blank, Ts(D(9, 7), 0), Blank),
    Row(CidC1, Text(COBRA), Num(10), Num(0), Num(6),
        Ts(D(12, 22), 0), Blank, Ts(Date(2026, 1, 10), 0), Blank) }

RECURSIVE SeqsUpTo(_, _)
SeqsUpTo(S, n) ==
  IF n = 0 THEN {<<>>}
  ELSE LET shorter == SeqsUpTo(S, n - 1)
       IN shorter \cup {Append(q, x) : q \in shorter, x \in S}

\* The sheets a workbook can hold: up to MaxRows rows of one pool, and a
\* sheet without the ControlId column.
SheetsOf(pool) ==
  {[hasControlId |-> TRUE, rows |-> q] : q \in SeqsUpTo(pool, MaxRows)}
    \cup {[hasControlId |-> FALSE, rows |-> <<>>]}

ClientSheets == SheetsOf(PoolClients)
LivesSheets == SheetsOf(PoolLives)
DateSheets == SheetsOf(PoolDates)
Sheets == ClientSheets \cup LivesSheets \cup DateSheets

Args(excel, auto, start, end, export, with_details) ==
  [excel |-> excel, auto |-> auto, start |-> start, end |-> end,
   export |-> export, with_details |-> with_details]

\* The command lines of the model; NoDate stands for an option not given.
ArgSets ==
  { Args(TRUE, TRUE, NoDate, NoDate, FALSE, FALSE),
    Args(TRUE, TRUE, D(9, 10), D(9, 9), TRUE, TRUE),
    Args(TRUE, FALSE, D(9, 8), D(9, 14), TRUE, FALSE),
    Args(TRUE, FALSE, D(9, 10), D(9, 14), FALSE, FALSE),
    Args(TRUE, FALSE, D(9, 10), D(9, 9), TRUE, FALSE),
    Args(FALSE, FALSE, D(9, 8), NoDate, FALSE, FALSE) }

\* The days datetime.today() returns in the model.
Todays == {D(10, 30), D(12, 31)}

\* ------------------------------------------------------------ state

VARIABLES
  pc,        \* position in main
  args,      \* the parsed command line
  book,      \* the sheet read_excel delivers
  df,        \* the normalized rows
  today,     \* datetime.today().date(), once read
  start_d,   \* this week's start
  warned,    \* the Monday-Sunday warning was printed
  ranges,    \* the three week ranges
  rows,      \* the summary rows built so far
  details,   \* the detail tables built so far
  exported,  \* what export_summary wrote
  error      \* the exception that ended the run

vars ==
  <<pc, args, book, df, today, start_d, warned, ranges, rows, details,
    exported, error>>

NoExport == [written |-> FALSE, summary |-> <<>>, tabs |-> <<>>]

InitOn(sheets) ==
  /\ pc = "start"
  /\ args \in ArgSets
  /\ book \in sheets
  /\ df = <<>>
  /\ today = NoDate
  /\ start_d = NoDate
  /\ warned = FALSE
  /\ ranges = <<>>
  /\ rows = <<>>
  /\ details = <<>>
  /\ exported = NoExport
  /\ error = "none"

Init == InitOn(Sheets)

Abort(exc) ==
  /\ pc' = "aborted"
  /\ error' = exc

\* main, lines 280-284: no --excel and no .xlsx file in the script folder
NoExcelFound ==
  /\ pc = "start"
  /\ ~args.excel
  /\ Abort("FileNotFoundError")
  /\ UNCHANGED <<args, book, df, today, start_d, warned, ranges, rows, details, exported>>

\* load_and_clean_excel, lines 110-111
MissingControlId ==
  /\ pc = "start"
  /\ ~book.hasControlId
  /\ Abort("KeyError")
  /\ UNCHANGED <<args, book, df, today, start_d, warned, ranges, rows, details, exported>>

\* main, line 287
LoadSheet ==
  /\ pc = "start"
  /\ book.hasControlId
  /\ df' = load_and_clean_excel(book.rows)
  /\ pc' = "loaded"
  /\ UNCHANGED <<args, book, today, start_d, warned, ranges, rows, details, exported, error>>

ThisWeekFromToday(t) ==
  /\ today' = t
  /\ start_d' = monday_of(t)
  /\ ranges' = three_week_ranges(monday_of(t))
  /\ pc' = "ranges"
  /\ UNCHANGED <<args, book, df, warned, rows, details, exported, error>>

\* main, lines 291-294
WeekAuto ==
  /\ pc = "loaded"
  /\ args.auto
  /\ \E t \in Todays : ThisWeekFromToday(t)

ExplicitDates == ~args.auto /\ args.start # NoDate /\ args.end # NoDate

NotMondaySunday == Weekday(args.start) # 0 \/ Weekday(args.end) # 6

\* EndBeforeStart with the check left out.
EndBeforeStart_Unchecked == FALSE

EndBeforeStart == DateLess(args.end, args.start)

\* main, lines 295-299 and 307
WeekExplicit ==
  /\ pc = "loaded"
  /\ ExplicitDates
  /\ ~EndBeforeStart
  /\ warned' = NotMondaySunday
  /\ start_d' = args.start
  /\ ranges' = three_week_ranges(args.start)
  /\ pc' = "ranges"
  /\ UNCHANGED <<args, book, df, today, rows, details, exported, error>>

\* main, lines 300-301
WeekInvalid ==
  /\ pc = "loaded"
  /\ ExplicitDates
  /\ EndBeforeStart
  /\ warned' = NotMondaySunday
  /\ Abort("ValueError")
  /\ UNCHANGED <<args, book, df, today, start_d, ranges, rows, details, exported>>

\* main, lines 302-305
WeekDefault ==
  /\ pc = "loaded"
  /\ ~args.auto
  /\ ~ExplicitDates
  /\ \E t \in Todays : ThisWeekFromToday(t)

\* build_summary, lines 225-253: the loop over the ranges, in their order
BuildRows ==
  /\ pc = "ranges"
  /\ rows' = [i \in 1..Len(ranges) |-> SummaryRow(df, ranges[i].start, ranges[i].end)]
  /\ details' = [i \in 1..Len(ranges) |->
                  DetailTabs(df, ranges[i].label, ranges[i].start, ranges[i].end)]
  /\ pc' = "rows"
  /\ UNCHANGED <<args, book, df, today, start_d, warned, ranges, exported, error>>

NextWeek == CHOOSE w \in {ranges[i] : i \in 1..Len(ranges)} : w.label = "Next Week"

\* Project writing the projection into the This Week row.
Project_ThisWeek ==
  /\ pc = "rows"
  /\ rows' = [rows EXCEPT ![2].LivesActive = Projected(df, NextWeek.start, NextWeek.end)]
  /\ pc' = "summary"
  /\ UNCHANGED <<args, book, df, today, start_d, warned, ranges, details, exported, error>>

\* build_summary, lines 255-260
Project ==
  /\ pc = "rows"
  /\ rows' = [rows EXCEPT ![3].LivesActive = Projected(df, NextWeek.start, NextWeek.end)]
  /\ pc' = "summary"
  /\ UNCHANGED <<args, book, df, today, start_d, warned, ranges, details, exported, error>>

\* main, lines 318-320, and export_summary
Export ==
  /\ pc = "summary"
  /\ args.export
  /\ exported' = [written |-> TRUE, summary |-> rows,
                  tabs |-> IF args.with_details THEN details ELSE <<>>]
  /\ pc' = "done"
  /\ UNCHANGED <<args, book, df, today, start_d, warned, ranges, rows, details, error>>

\* main, line 318: no --export
Finish ==
  /\ pc = "summary"
  /\ ~args.export
  /\ pc' = "done"
  /\ UNCHANGED <<args, book, df, today, start_d, warned, ranges, rows, details, exported, error>>

Next ==
  \/ NoExcelFound
  \/ MissingControlId
  \/ LoadSheet
  \/ WeekAuto
  \/ WeekExplicit
  \/ WeekInvalid
  \/ WeekDefault
  \/ BuildRows
  \/ Project
  \/ Export
  \/ Finish

Spec == Init /\ [][Next]_vars

\* The same program on the workbooks of one pool.
InitClients == InitOn(ClientSheets)
InitLives == InitOn(LivesSheets)
InitDates == InitOn(DateSheets)

SpecClients == InitClients /\ [][Next]_vars
SpecLives == InitLives /\ [][Next]_vars
SpecDates == InitDates /\ [][Next]_vars

\* ------------------------------------------------------------ properties

Loaded == pc \notin {"start", "aborted"} \/ (pc = "aborted" /\ error = "ValueError")

\* The windows of the run, and the row sets the run hands to the
\* deduplicator and to the lives formulas.
Windows == {ranges[i] : i \in 1..Len(ranges)}

Frames ==
  {df}
    \cup {rows_going_live(df, w.start, w.end) : w \in Windows}
    \cup {rows_active(df, w.start, w.end) : w \in Windows}
    \cup {rows_completed(df, w.start) : w \in Windows}

ClientsOf(F) == {F[i].ControlId : i \in 1..Len(F)}

\* Rank of a population type as the specification words it.
RankOf(p) ==
  CASE p = Active -> 0
    [] p = COBRA -> 1
    [] p = Retiree -> 2
    [] OTHER -> 3

\* Position of the row of F that should survive for client c: best rank,
\* then earliest position.
BestPosition(F, c) ==
  CHOOSE i \in 1..Len(F) :
    /\ F[i].ControlId = c
    /\ \A j \in 1..Len(F) :
         F[j].ControlId = c =>
           \/ RankOf(F[i].PopType) < RankOf(F[j].PopType)
           \/ RankOf(F[i].PopType) = RankOf(F[j].PopType) /\ i <= j

DedupeKeepsBest(F) ==
  LET out == dedupe_clients_for_count(F)
  IN /\ Len(out) = Cardinality(ClientsOf(F))
     /\ Range(out) = {F[BestPosition(F, c)] : c \in ClientsOf(F)}
     /\ Range(dedupe_clients(F)) = Range(out)

\* C1: dedupe_clients_for_count returns exactly one row per client_id of
\* its input and no other row; the row kept is the client's row of best
\* population-type rank (Active, COBRA, Retiree, anything else), the first
\* in row order among equals.
C1_DedupeKeepsBestRow == \A F \in Frames : DedupeKeepsBest(F)

\* A client's Retiree row precedes its Active row, and only the Active row
\* is kept.
C1_Witness ==
  \E F \in Frames : \E i, j \in 1..Len(F) :
    /\ i < j
    /\ F[i].ControlId = F[j].ControlId
    /\ F[i].PopType = Retiree
    /\ F[j].PopType = Active
    /\ F[j] \in Range(dedupe_clients_for_count(F))
    /\ F[i] \notin Range(dedupe_clients_for_count(F))

\* C2: every row load_and_clean_excel returns has start_date <= end_date;
\* a sheet row whose resolved end is earlier than its resolved start is not
\* among them.
C2_StartNotAfterEnd ==
  Loaded =>
    /\ \A i \in 1..Len(df) : ToOrdinal(df[i].Start_d) <= ToOrdinal(df[i].End_d)
    /\ \A i \in 1..Len(df) : ~IsNaT(df[i].Start) /\ ~IsNaT(df[i].End)
    /\ LET resolved == [i \in 1..Len(book.rows) |-> ResolveRow(book.rows[i])]
           kept == {i \in 1..Len(book.rows) :
                     /\ ~IsNaT(resolved[i].Start)
                     /\ ~IsNaT(resolved[i].End)
                     /\ ToOrdinal(resolved[i].Start.date)
                          <= ToOrdinal(resolved[i].End.date)}
       IN /\ Len(df) <= Cardinality(kept)
          /\ \A i \in 1..Len(df) : \E k \in kept :
               /\ resolved[k].Start = df[i].Start
               /\ resolved[k].End = df[i].End
               /\ resolved[k].ControlId = df[i].ControlId

\* A sheet with a one-day window mirrored from its only bound, kept, and a
\* row whose end precedes its start, dropped.
C2_Witness ==
  /\ Loaded
  /\ Len(df) = 1
  /\ df[1].Start = df[1].End
  /\ \E i \in 1..Len(book.rows) :
       /\ coalesce_dates(book.rows[i], END_FALLBACKS) = NaT
       /\ coalesce_dates(book.rows[i], START_FALLBACKS) = df[1].Start
  /\ \E i \in 1..Len(book.rows) :
       LET r == ResolveRow(book.rows[i])
       IN ~IsNaT(r.Start) /\ ~IsNaT(r.End) /\ DateLess(r.End.date, r.Start.date)

\* A row's contribution to lives-active as the specification words it.
Contribution(r) ==
  LET v == IF r.OeTotal > 0 THEN r.OeTotal - r.Confirmed ELSE r.PopSize
  IN IF v < 0 THEN 0 ELSE v

TotalOf(F) ==
  LET g[k \in 0..Len(F)] == IF k = 0 THEN 0 ELSE g[k - 1] + Contribution(F[k])
  IN g[Len(F)]

HasRows == pc \in {"rows", "summary", "done"}

\* C3: calc_lives_active is the sum, over every row and without
\* deduplication, of max(0, total_oe - confirmed if total_oe > 0 else
\* population_size); the Last Week and This Week rows carry it for the
\* rows active in their windows.
C3_LivesActiveSum ==
  /\ \A F \in Frames : calc_lives_active(F) = TotalOf(F)
  /\ \A F \in Frames : \A i \in 1..Len(F) : Contribution(F[i]) >= 0
  /\ HasRows =>
       \A i \in 1..2 :
         rows[i].LivesActive =
           TotalOf(rows_active(df, ranges[i].start, ranges[i].end))

\* Client C1 goes live in the week of 2025-10-27 with an Active row of 100
\* and a Retiree row of 20: one client, 120 lives.
C3_Witness ==
  /\ HasRows
  /\ ranges[2].start = D(10, 27)
  /\ Len(df) = 2
  /\ \E i, j \in 1..2 :
       /\ df[i].PopType = Active /\ df[i].PopSize = 100
       /\ df[j].PopType = Retiree /\ df[j].PopSize = 20
       /\ df[i].ControlId = df[j].ControlId
  /\ rows[2].LivesActive = 120
  /\ rows[2].ClientsGoingLive = 1

\* The projection as the specification words it, on positions of df.
ContinuingAt(ns, ne) ==
  {i \in 1..Len(df) :
     /\ ToOrdinal(df[i].Start_d) <= ToOrdinal(ne)
     /\ ToOrdinal(df[i].End_d) >= ToOrdinal(ns)
     /\ ToOrdinal(df[i].Start_d) < ToOrdinal(ns)}

NewAt(ns, ne) ==
  {i \in 1..Len(df) :
     /\ ToOrdinal(df[i].Start_d) >= ToOrdinal(ns)
     /\ ToOrdinal(df[i].Start_d) <= ToOrdinal(ne)}

RECURSIVE SumAt(_, _)
SumAt(I, val) ==
  IF I = {} THEN 0
  ELSE LET i == CHOOSE x \in I : TRUE IN val[i] + SumAt(I \ {i}, val)

Estimate(r) == IF r.PopSize > 0 THEN r.PopSize ELSE r.OeTotal

Bucket(I, c, types) ==
  SumAt({i \in I : df[i].ControlId = c /\ df[i].PopType \in types},
        [i \in 1..Len(df) |-> Estimate(df[i])])

OtherTypes == {df[i].PopType : i \in 1..Len(df)} \ {Active, Retiree, COBRA}

ClientShare(I, c) ==
  LET a == Bucket(I, c, {Active})
      r == Bucket(I, c, {Retiree})
  IN a + (IF a > 0 /\ r > a THEN a ELSE r)
       + Bucket(I, c, {COBRA}) + Bucket(I, c, OtherTypes)

RECURSIVE SharesOf(_, _)
SharesOf(I, cs) ==
  IF cs = {} THEN 0
  ELSE LET c == CHOOSE x \in cs : TRUE
       IN ClientShare(I, c) + SharesOf(I, cs \ {c})

ProjectionOf(ns, ne) ==
  SumAt(ContinuingAt(ns, ne), [i \in 1..Len(df) |-> Contribution(df[i])])
    + SharesOf(NewAt(ns, ne), {df[i].ControlId : i \in NewAt(ns, ne)})

Projection_done == pc \in {"summary", "done"}

\* C4: the Next Week lives-active is calc_lives_active of the continuing
\* rows plus, per client going live next week, Active + Retiree + COBRA +
\* Other estimates, the Retiree sum cut to the Active sum exactly when
\* Active > 0 and Retiree > Active.
C4_ProjectionFormula ==
  Projection_done => rows[3].LivesActive = ProjectionOf(ranges[3].start, ranges[3].end)

\* Continuing lives of 50 and one new client with Active 30, Retiree 40:
\* the projection is 110.
C4_Witness ==
  /\ Projection_done
  /\ calc_lives_active(continuing_next_week(df, ranges[3].start, ranges[3].end)) = 50
  /\ LET new == new_go_lives_next_week(df, ranges[3].start, ranges[3].end)
     IN /\ Cardinality(ClientsOf(new)) = 1
        /\ TypeSum(new, Active) = 30
        /\ TypeSum(new, Retiree) = 40
  /\ rows[3].LivesActive = 110

\* The five metrics of window w as the plain window filters give them.
PlainRow(w) ==
  [ClientsGoingLive |-> count_unique_clients(rows_going_live(df, w.start, w.end)),
   ClientsActive |-> count_unique_clients(rows_active(df, w.start, w.end)),
   ClientsCompleted |-> count_unique_clients(rows_completed(df, w.start)),
   LivesActive |-> calc_lives_active(rows_active(df, w.start, w.end)),
   LivesConfirmed |-> calc_lives_confirmed_for_active(rows_active(df, w.start, w.end), w.end)]

\* The window k weeks after this week, from the start of this week.
WeekAt(k) == [start |-> AddDays(start_d, 7 * k), end |-> AddDays(start_d, 7 * k + 6)]

MetricsOf(row) ==
  [ClientsGoingLive |-> row.ClientsGoingLive,
   ClientsActive |-> row.ClientsActive,
   ClientsCompleted |-> row.ClientsCompleted,
   LivesActive |-> row.LivesActive,
   LivesConfirmed |-> row.LivesConfirmed]

\* C5: the summary has exactly three rows, for Last Week, This Week and
\* Next Week in that order; once the projection is applied the Next Week
\* row differs from the plain window-filter results in its lives-active
\* value only, and the other two rows not at all.
C5_OnlyNextWeekLivesActive ==
  HasRows =>
    LET week == [k \in 1..3 |-> WeekAt(k - 2)]
        plain == [k \in 1..3 |-> PlainRow(week[k])]
    IN /\ Len(rows) = 3
       /\ [i \in 1..3 |-> ranges[i].label] = <<"Last Week", "This Week", "Next Week">>
       /\ \A i \in 1..3 :
            /\ ranges[i].start = week[i].start
            /\ ranges[i].end = week[i].end
            /\ rows[i].Week = WeekLabel(week[i].start, week[i].end)
       /\ MetricsOf(rows[1]) = plain[1]
       /\ MetricsOf(rows[2]) = plain[2]
       /\ [MetricsOf(rows[3]) EXCEPT !.LivesActive = 0]
            = [plain[3] EXCEPT !.LivesActive = 0]
       /\ pc = "rows" => MetricsOf(rows[3]) = plain[3]
       /\ Projection_done =>
            rows[3].LivesActive = Projected(df, week[3].start, week[3].end)

\* The projection replaced a different plain value, and the three rows
\* differ from one another.
C5_Witness ==
  /\ pc = "done"
  /\ rows[3].LivesActive # PlainRow(WeekAt(1)).LivesActive
  /\ rows[2].LivesActive # rows[3].LivesActive
  /\ rows[2].LivesActive # PlainRow(WeekAt(1)).LivesActive
  /\ rows[3].ClientsGoingLive > 0
  /\ rows[3].LivesConfirmed > 0

\* C6: calc_lives_confirmed_for_active sums confirmed_oe_count over exactly
\* the rows whose start_date lies between September 8 of week_end's year
\* and week_end, both inclusive.
C6_ConfirmedSinceSept8 ==
  \A w \in Windows :
    LET F == rows_active(df, w.start, w.end)
        inside == SelectIdx(F, {i \in DOMAIN F :
                    /\ ToOrdinal(F[i].Start_d) >= ToOrdinal(Date(w.end.y, 9, 8))
                    /\ ToOrdinal(F[i].Start_d) <= ToOrdinal(w.end)})
        g[k \in 0..Len(inside)] ==
          IF k = 0 THEN 0 ELSE g[k - 1] + inside[k].Confirmed
    IN /\ calc_lives_confirmed_for_active(F, w.end) = g[Len(inside)]
       /\ \A i \in 1..Len(F) :
            F[i].Start_d = Date(w.end.y, 9, 7) => F[i] \notin Range(inside)
       /\ \A i \in 1..Len(F) :
            (F[i].Start_d = Date(w.end.y, 9, 8) /\ DateLeq(Date(w.end.y, 9, 8), w.end))
              => F[i] \in Range(inside)

\* In the week of 2025-09-08 a row starting September 7 (4 confirmed) and a
\* row starting September 8 (5 confirmed) are both active; 5 are counted.
C6_Witness ==
  /\ HasRows
  /\ ranges[2].start = D(9, 8)
  /\ LET F == rows_active(df, ranges[2].start, ranges[2].end)
     IN /\ Len(F) = 2
        /\ \E i, j \in 1..2 :
             /\ F[i].Start_d = D(9, 7) /\ F[i].Confirmed = 4
             /\ F[j].Start_d = D(9, 8) /\ F[j].Confirmed = 5
  /\ rows[2].LivesConfirmed = 5

\* An explicit start and an explicit end were given, the end earlier.
EndBeforeStartGiven ==
  args.start # NoDate /\ args.end # NoDate /\ ToOrdinal(args.end) < ToOrdinal(args.start)

NothingProduced ==
  /\ pc \in {"start", "loaded", "aborted"}
  /\ ranges = <<>>
  /\ rows = <<>>
  /\ exported = NoExport

\* C7 as stated: with an explicit end date earlier than the explicit start
\* date the run derives no week ranges, builds no summary and exports
\* nothing, whatever the other options, the auto week mode included.
C7_AbortsWhateverOptions ==
  EndBeforeStartGiven => NothingProduced

\* C7, amended: with an explicit end date earlier than the explicit start
\* date, and the auto week mode not set, the run ends in a fatal error
\* before any week range is derived, any summary built or anything
\* exported.
C7_AbortsUnlessAuto ==
  (EndBeforeStartGiven /\ ~args.auto) =>
    /\ NothingProduced
    /\ pc = "loaded" =>
         /\ ENABLED WeekInvalid
         /\ ~ENABLED WeekAuto
         /\ ~ENABLED WeekExplicit
         /\ ~ENABLED WeekDefault

\* The run was asked to export and ended on the date check.
C7_Witness ==
  /\ EndBeforeStartGiven
  /\ ~args.auto
  /\ args.export
  /\ pc = "aborted"
  /\ error = "ValueError"
  /\ Len(df) > 0

\* C8: deduplicating an already deduplicated row set returns the same rows.
C8_DedupeIdempotent ==
  \A F \in Frames :
    LET once == dedupe_clients_for_count(F)
        twice == dedupe_clients_for_count(once)
    IN Range(twice) = Range(once) /\ Len(twice) = Len(once)

\* A row set in which one client has three rows and deduplication removes
\* two of them.
C8_Witness ==
  \E F \in Frames :
    /\ Len(F) = 3
    /\ Cardinality(ClientsOf(F)) = 1
    /\ Len(dedupe_clients_for_count(F)) = 1
    /\ Cardinality({F[i].PopType : i \in 1..3}) > 1

IsSubsequenceOfDf(F) ==
  /\ \A i \in 1..Len(F) : F[i].idx \in 0..(Len(df) - 1) /\ F[i] = df[F[i].idx + 1]
  /\ \A i, j \in 1..Len(F) : i < j => F[i].idx < F[j].idx

\* C9: rows_active returns exactly the rows with start_date <= e and
\* end_date >= s, bounds included, in their original relative order, and
\* the normalized rows stay as they were loaded.
C9_ActiveIsInclusiveOverlap ==
  /\ \A w \in Windows :
       LET F == rows_active(df, w.start, w.end)
       IN /\ IsSubsequenceOfDf(F)
          /\ {F[i].idx + 1 : i \in 1..Len(F)} =
               {k \in 1..Len(df) :
                  /\ ToOrdinal(df[k].Start_d) <= ToOrdinal(w.end)
                  /\ ToOrdinal(df[k].End_d) >= ToOrdinal(w.start)}
  /\ Loaded => df = load_and_clean_excel(book.rows)

\* In the week 2025-09-08 .. 2025-09-14 a row starting and ending on
\* September 14 is active and a row ending on September 7 is not.
C9_Witness ==
  /\ HasRows
  /\ ranges[2].start = D(9, 8)
  /\ LET F == rows_active(df, ranges[2].start, ranges[2].end)
     IN /\ \E i \in 1..Len(F) : F[i].Start_d = ranges[2].end /\ F[i].End_d = ranges[2].end
        /\ \E k \in 1..Len(df) : df[k].End_d = D(9, 7) /\ df[k] \notin Range(F)

\* C10: for normalized rows the continuing rows and the new go-lives of a
\* window are disjoint and together are exactly the rows active in it.
C10_ContinuingAndNewPartitionActive ==
  \A w \in Windows :
    LET cont == Range(continuing_next_week(df, w.start, w.end))
        new == Range(new_go_lives_next_week(df, w.start, w.end))
        act == Range(rows_active(df, w.start, w.end))
    IN /\ cont \cap new = {}
       /\ cont \cup new = act
       /\ Len(continuing_next_week(df, w.start, w.end))
            + Len(new_go_lives_next_week(df, w.start, w.end))
            = Len(rows_active(df, w.start, w.end))

\* Next week has a continuing row, a row going live on its first day, and
\* a row that is not active in it.
C10_Witness ==
  /\ Projection_done
  /\ LET w == ranges[3]
         cont == continuing_next_week(df, w.start, w.end)
         new == new_go_lives_next_week(df, w.start, w.end)
     IN /\ Len(cont) > 0
        /\ \E i \in 1..Len(new) : new[i].Start_d = w.start
        /\ Len(cont) + Len(new) < Len(df)

====
